---- MODULE Spec2Model ----
(***************************************************************************)
(* Model of automatedFTPDownloader.py: argument parsing, configuration     *)
(* loading and validation, the per-site FTP session, archive expansion and *)
(* the final summary.                                                      *)
(***************************************************************************)
EXTENDS Integers, Sequences, FiniteSets, TLC

(***************************************************************************)
(* Bounds of the model.                                                    *)
(***************************************************************************)
\* Longest configuration source (number of site entries in the YAML file).
MaxSites == 2
\* Longest NLST listing of a remote directory.
MaxList == 3

(***************************************************************************)
(* Python values of a YAML site entry.                                     *)
(***************************************************************************)
\* The four keys loadCredentials requires, in the order line 183 reads them.
RequiredKeys == <<"site", "user", "password", "remote_path">>

\* A key that the entry's mapping does not hold.
Absent == "<absent>"
\* YAML null (e.g. "user:" with nothing after it): Python None.
PyNone == "None"
\* YAML integer zero (e.g. "password: 0"): Python int 0.
PyZero == "0"
\* A non-empty string.
PyStr == "'x'"

\* What yaml.safe_load can put under a key: a password may be numeric.
FieldValues(k) ==
    IF k = "password" THEN {Absent, PyNone, PyZero, PyStr}
    ELSE {Absent, PyNone, PyStr}

\* Python truthiness, as `site['site'] and site['user'] and ...` tests it.
Truthy(v) == v \notin {PyNone, PyZero}

KeySet == {RequiredKeys[i] : i \in 1..Len(RequiredKeys)}

Entries == {e \in [KeySet -> {Absent, PyNone, PyZero, PyStr}] :
               \A k \in KeySet : e[k] \in FieldValues(k)}

\* The site names of the model; the third is main's match-all sentinel.
Sentinel == ".*_.*"
SiteNames == {"a", "b", Sentinel}

(***************************************************************************)
(* Ordered dictionaries (dict keeps insertion order): sequences of         *)
(* [name, cfg] with distinct names.                                        *)
(***************************************************************************)
Keys(d) == {d[i].name : i \in 1..Len(d)}

KeyList(d) == [i \in 1..Len(d) |-> d[i].name]

RECURSIVE Del(_, _)
Del(d, n) ==
    IF d = <<>> THEN <<>>
    ELSE IF Head(d).name = n THEN Tail(d)
    ELSE <<Head(d)>> \o Del(Tail(d), n)

Distinct(s) == \A i, j \in 1..Len(s) : i # j => s[i] # s[j]

SeqsUpTo(S, n) == UNION {[1..m -> S] : m \in 0..n}

\* Every mapping of at most n sites, in every insertion order.
DictsOver(names, cfgs, n) ==
    {d \in SeqsUpTo([name : names, cfg : cfgs], n) : Distinct(KeyList(d))}

(***************************************************************************)
(* loadCredentials (lines 174-186).                                        *)
(***************************************************************************)
AllKeysPresent(site) == \A k \in KeySet : site[k] # Absent

\* Line 183: the `and` chain, left to right.  Reading a key the entry does
\* not hold raises KeyError; the first falsy value ends the chain.
RECURSIVE AndChain(_, _)
AndChain(site, i) ==
    IF i > Len(RequiredKeys) THEN "truthy"
    ELSE IF site[RequiredKeys[i]] = Absent THEN "KeyError"
    ELSE IF ~Truthy(site[RequiredKeys[i]]) THEN "falsy"
    ELSE AndChain(site, i + 1)

\* The loop body for the i-th key of list(ftpConfigs.keys()).
RECURSIVE ValidateFrom(_, _, _)
ValidateFrom(src, i, cfgs) ==
    IF i > Len(src) THEN [status |-> "returned", cfgs |-> cfgs]
    ELSE
      LET config == src[i].name
          site == src[i].cfg
          \* lines 178-180
          afterKeys == IF ~AllKeysPresent(site) THEN Del(cfgs, config) ELSE cfgs
          \* line 183
          chain == AndChain(site, 1)
      IN  IF chain = "KeyError"
            THEN [status |-> "KeyError", cfgs |-> afterKeys]
          ELSE IF chain = "falsy"
            THEN \* line 185: del of a key that line 180 already removed raises
                 IF config \in Keys(afterKeys)
                   THEN ValidateFrom(src, i + 1, Del(afterKeys, config))
                   ELSE [status |-> "KeyError", cfgs |-> afterKeys]
          ELSE ValidateFrom(src, i + 1, afterKeys)

loadCredentials(src) == ValidateFrom(src, 1, src)

(***************************************************************************)
(* The output directory and the remote side.                               *)
(***************************************************************************)
\* Names an NLST listing can hold.
ListNames == {".", "..", "a.txt", "b.zip"}

\* Files of the output directory.
LocalNames == {"a.txt", "b.zip", "c.txt", "SureDone_1.csv"}

\* File contents.  A zip or tar container lists its members in archive order.
NoFile == [kind |-> "none", members |-> <<>>]
Truncated == [kind |-> "truncated", members |-> <<>>]
Old == [kind |-> "old", members |-> <<>>]
Plain == [kind |-> "plain", members |-> <<>>]
Payload == [kind |-> "payload", members |-> <<>>]
Zip(ms) == [kind |-> "zip", members |-> ms]
Tar(ms) == [kind |-> "tar", members |-> ms]

\* Member lists of the archives the remote side serves.
ArchiveMembers == {<<"c.txt">>, <<"a.txt", "c.txt">>, <<"b.zip">>}

\* What RETR of a name can deliver.  The container served under b.zip is a
\* zip or a tar: the code goes by the file's signature, not by its name.
RemoteContents(name) ==
    IF name = "b.zip"
      THEN {Zip(ms) : ms \in ArchiveMembers} \cup {Tar(<<"c.txt">>)}
      ELSE {Plain}

\* NLST answers: the names of one directory, each once.
Listings == {l \in SeqsUpTo(ListNames, MaxList) : Distinct(l)}

\* re.compile('SureDone_').search(path), and the '.py' exemption (lines 560-561).
PurgeMatches(name) == name = "SureDone_1.csv"

\* purge (lines 555-564): removes every matching file below the directory.
purge(dir) == [n \in LocalNames |-> IF PurgeMatches(n) THEN NoFile ELSE dir[n]]

\* zipfile.is_zipfile (line 314).
is_zipfile(c) == c.kind = "zip"

\* tarfile.is_tarfile (line 319).
is_tarfile(c) == c.kind = "tar"

(***************************************************************************)
(* ZipFile.extractall and TarFile.extractall into the directory the        *)
(* archive lies in (lines 315-316, 320-322).  Each member is written to downloadPath/member with           *)
(* open(..., "wb").  When the member's path is the archive's own path the  *)
(* open truncates the archive under the reader: the copy either raises     *)
(* (archive left truncated) or is served from the read buffer (archive     *)
(* replaced by the member's bytes), and every later member may raise too.  *)
(* The result is the set of outcomes [dir, raised].                        *)
(***************************************************************************)
RECURSIVE extractall(_, _, _, _, _)
extractall(dir, archive, members, k, clobbered) ==
    IF k > Len(members) THEN {[dir |-> dir, raised |-> FALSE]}
    ELSE
      LET m == members[k]
          written == [dir EXCEPT ![m] = Payload]
      IN  IF m = archive
            THEN {[dir |-> [dir EXCEPT ![m] = Truncated], raised |-> TRUE]}
                 \cup extractall(written, archive, members, k + 1, TRUE)
          ELSE IF clobbered
            THEN {[dir |-> dir, raised |-> TRUE]}
                 \cup extractall(written, archive, members, k + 1, TRUE)
          ELSE extractall(written, archive, members, k + 1, FALSE)

\* unzipZippedFiles with line 319 left out: every file that is no zip is
\* opened as a tar, and tarfile.open raises ReadError on one that is none.
RECURSIVE unzipFromOpensEveryTar(_, _, _)
unzipFromOpensEveryTar(dir, names, i) ==
    IF i > Len(names) THEN {[dir |-> dir, raised |-> FALSE]}
    ELSE
      LET file == names[i]
      IN  IF is_zipfile(dir[file]) \/ is_tarfile(dir[file])
            THEN UNION {IF o.raised THEN {o}
                        ELSE unzipFromOpensEveryTar(o.dir, names, i + 1) :
                          o \in extractall(dir, file, dir[file].members, 1, FALSE)}
          ELSE {[dir |-> dir, raised |-> TRUE]}

\* unzipZippedFiles (lines 310-323), from the i-th downloaded name on: a zip
\* is extracted, else a tar is extracted, else the name is passed over.
RECURSIVE unzipFrom(_, _, _)
unzipFrom(dir, names, i) ==
    IF i > Len(names) THEN {[dir |-> dir, raised |-> FALSE]}
    ELSE
      LET file == names[i]
      IN  IF is_zipfile(dir[file])
            THEN UNION {IF o.raised THEN {o} ELSE unzipFrom(o.dir, names, i + 1) :
                          o \in extractall(dir, file, dir[file].members, 1, FALSE)}
          ELSE IF is_tarfile(dir[file])
            THEN UNION {IF o.raised THEN {o} ELSE unzipFrom(o.dir, names, i + 1) :
                          o \in extractall(dir, file, dir[file].members, 1, FALSE)}
          ELSE unzipFrom(dir, names, i + 1)

unzipZippedFiles(dir, names) == unzipFrom(dir, names, 1)

VARIABLES
    source,       \* the mapping yaml.safe_load returns
    loaded,       \* what loadCredentials did with it: status and catalog
    pc,           \* position of the run
    \* parseArgs / main locals
    customYAMLPathFoundAndValidated,
    customOutputPathFoundAndValidated,
    preserveOldFiles,
    unzipFiles,
    targetSiteSpecified,
    targetSite,
    ftpConfigs,
    targetFTPSite,        \* main's list of target sites (line 90-94)
    siteIdx,              \* position of `for site in targetFTPSite`
    allFilesDownloaded,
    downloadedFiles,      \* what connectToFTP returned for the current site
    \* downloadFiles locals
    fileList,
    fileIdx,
    filesDownloaded,
    \* environment
    fs,                   \* the output directory: name -> content
    openHandles,          \* local files opened and not closed
    openConns,            \* FTP control connections opened and not quit
    \* history
    attempts,             \* sites FTP(hostname) was called for, in order
    retrieved,            \* names a RETR was sent for
    purgeCalls,           \* calls of purge
    unzipCalls,           \* argument lists unzipZippedFiles was called with
    outcomes,             \* per name of fileList so far: what the loop body met
    fatalLogged,          \* a 'code-breaker' entry was written
    failure,              \* the call whose exception ended the run, or "none"
    summary,              \* number printed as "Total files downloaded", or -1
    returnedLists         \* the lists connectToFTP returned, in order

argVars == <<customYAMLPathFoundAndValidated, customOutputPathFoundAndValidated,
             preserveOldFiles, unzipFiles, targetSiteSpecified, targetSite>>

mainVars == <<ftpConfigs, targetFTPSite, siteIdx, allFilesDownloaded, downloadedFiles>>

sessVars == <<fileList, fileIdx, filesDownloaded>>

progVars == <<pc, argVars, mainVars, sessVars>>

envVars == <<fs, openHandles, openConns>>

histVars == <<attempts, retrieved, purgeCalls, unzipCalls, outcomes, fatalLogged,
              failure, summary, returnedLists>>

vars == <<source, loaded, progVars, envVars, histVars>>

NotRun == [status |-> "not-run", cfgs |-> <<>>]

\* The state when parseArgs starts (lines 352-360), before any option is read.
Start ==
    /\ pc = "parseArgs"
    /\ customYAMLPathFoundAndValidated = FALSE
    /\ customOutputPathFoundAndValidated = FALSE
    /\ preserveOldFiles = FALSE
    /\ unzipFiles = FALSE
    /\ targetSiteSpecified = FALSE
    /\ targetSite = Sentinel
    /\ ftpConfigs = <<>>
    /\ targetFTPSite = <<>>
    /\ siteIdx = 0
    /\ allFilesDownloaded = <<>>
    /\ downloadedFiles = <<>>
    /\ fileList = <<>>
    /\ fileIdx = 0
    /\ filesDownloaded = <<>>
    /\ fs = [n \in LocalNames |-> IF n = "SureDone_1.csv" THEN Old ELSE NoFile]
    /\ openHandles = 0
    /\ openConns = 0
    /\ attempts = <<>>
    /\ retrieved = {}
    /\ purgeCalls = 0
    /\ unzipCalls = <<>>
    /\ outcomes = <<>>
    /\ fatalLogged = FALSE
    /\ failure = "none"
    /\ summary = -1
    /\ returnedLists = <<>>

(***************************************************************************)
(* loadCredentials alone, on every configuration source of the bounds.     *)
(***************************************************************************)
InitLoad ==
    /\ source \in DictsOver(SiteNames, Entries, MaxSites)
    /\ loaded = NotRun
    /\ Start

LoadStep ==
    /\ loaded.status = "not-run"
    /\ loaded' = loadCredentials(source)
    /\ UNCHANGED <<source, progVars, envVars, histVars>>

NextLoad == LoadStep

SpecLoad == InitLoad /\ [][NextLoad]_vars

(***************************************************************************)
(* The whole run: parseArgs, then main's loop over the target sites.       *)
(***************************************************************************)
\* A complete, valid site entry.
GoodEntry == [k \in KeySet |-> PyStr]

\* The entries of the configuration files the run is checked on: a valid
\* one, one with an empty value and one with a key missing.
RunEntries == {GoodEntry,
               [GoodEntry EXCEPT !["password"] = PyNone],
               [GoodEntry EXCEPT !["remote_path"] = Absent]}

\* Values of -s / --site: the site names and a name no file holds.
SiteOptions == SiteNames \cup {"zz"}

Init ==
    /\ source = <<>>
    /\ loaded = NotRun
    /\ Start

\* Logger.writeLog (lines 643-691): the entry is written at line 691.  A
\* 'code-breaker' entry with code 3 first adds data['error'], the exception
\* object, to a string at line 687: TypeError, and nothing is written.
writeLog(severity, code) ==
    IF severity = "code-breaker" /\ code = 3 THEN "TypeError" ELSE "written"

\* exit() (lines 414, 477, 480) ends the process: the statement that follows
\* the call, fallThrough, is not reached.
exitFallsThrough(fallThrough) == fallThrough
exit(fallThrough) == "exited"

\* Lines 365-370 and 373-377: a getopt error or -h prints the help and exits.
ParseArgsUsageExit ==
    /\ pc = "parseArgs"
    /\ pc' = "exited"
    /\ UNCHANGED <<source, loaded, argVars, mainVars, sessVars, envVars, histVars>>

\* Lines 372-394: the option loop.  optFile and optOutput are "absent",
\* "valid" or "invalid" (validateConfigPath, validateDownloadPath).
ParseOptions ==
    /\ pc = "parseArgs"
    /\ \E optFile \in {"absent", "valid", "invalid"},
          optOutput \in {"absent", "valid", "invalid"},
          optPreserve \in BOOLEAN, optUnzip \in BOOLEAN,
          optSite \in SiteOptions \cup {"<no -s>"} :
         /\ customYAMLPathFoundAndValidated' = (optFile = "valid")
         /\ customOutputPathFoundAndValidated' = (optOutput = "valid")
         /\ preserveOldFiles' = optPreserve
         /\ unzipFiles' = optUnzip
         /\ targetSiteSpecified' = (optSite # "<no -s>")
         /\ targetSite' = IF optSite # "<no -s>" THEN optSite ELSE targetSite
    /\ pc' = "configPath"
    /\ UNCHANGED <<source, loaded, mainVars, sessVars, envVars, histVars>>

\* Lines 400-401 with getDefaultConfigPath (lines 456-480): without a valid
\* -f the default locations are searched; finding nothing is fatal.
ResolveConfigPath ==
    /\ pc = "configPath"
    /\ \E found \in BOOLEAN :
         IF customYAMLPathFoundAndValidated \/ found
           THEN pc' = "downloadPath" /\ UNCHANGED fatalLogged
           ELSE /\ fatalLogged' = (writeLog("code-breaker", 1) = "written")
                /\ pc' = exit("downloadPath")
    /\ UNCHANGED <<source, loaded, argVars, mainVars, sessVars, envVars, attempts,
                   retrieved, purgeCalls, unzipCalls, outcomes, failure, summary,
                   returnedLists>>

\* getDefaultDownloadPath(preserve) (lines 521-535): purges unless preserve.
getDefaultDownloadPath(preserve) ==
    IF ~preserve
      THEN fs' = purge(fs) /\ purgeCalls' = purgeCalls + 1
      ELSE UNCHANGED <<fs, purgeCalls>>

\* Lines 402-403.
ResolveDownloadPath ==
    /\ pc = "downloadPath"
    /\ IF ~customOutputPathFoundAndValidated
         THEN getDefaultDownloadPath(preserveOldFiles)
         ELSE UNCHANGED <<fs, purgeCalls>>
    /\ pc' = "loadCredentials"
    /\ UNCHANGED <<source, loaded, argVars, mainVars, sessVars, openHandles,
                   openConns, attempts, retrieved, unzipCalls, outcomes,
                   fatalLogged, failure, summary,
                   returnedLists>>

\* Line 406: the file is read and validated; an exception of
\* loadCredentials is not caught anywhere.  When yaml.safe_load raises
\* (lines 169-172) the handler calls writeLog and does not exit: either
\* writeLog raises, or line 175 reads ftpConfigs, which was never bound.
LoadCredentials ==
    /\ pc = "loadCredentials"
    /\ \/ /\ \E src \in DictsOver(SiteNames, RunEntries, MaxSites) :
               LET r == loadCredentials(src)
               IN  /\ ftpConfigs' = r.cfgs
                   /\ pc' = IF r.status = "returned" THEN "validateTarget"
                            ELSE "crashed"
                   /\ failure' = IF r.status = "returned" THEN failure
                                 ELSE "loadCredentials"
          /\ UNCHANGED fatalLogged
       \/ /\ IF writeLog("code-breaker", 3) = "TypeError"
               THEN failure' = "writeLog" /\ UNCHANGED fatalLogged
               ELSE failure' = "ftpConfigs.keys" /\ fatalLogged' = TRUE
          /\ pc' = "crashed"
          /\ UNCHANGED ftpConfigs
    /\ UNCHANGED <<source, loaded, argVars, targetFTPSite, siteIdx,
                   allFilesDownloaded, downloadedFiles, sessVars, envVars,
                   attempts, retrieved, purgeCalls, unzipCalls, outcomes,
                   summary,
                   returnedLists>>

\* Line 410.
TargetKnownAlways(selector, cfgs) == TRUE
TargetKnown(selector, cfgs) == selector \in Keys(cfgs)

\* Lines 409-418: an unknown target is fatal; otherwise parseArgs returns
\* and its path flags are gone.  targetSiteSpecified stays as the record of
\* whether -s was given.
ValidateTarget ==
    /\ pc = "validateTarget"
    /\ IF targetSiteSpecified /\ ~TargetKnown(targetSite, ftpConfigs)
         THEN /\ fatalLogged' = (writeLog("code-breaker", 1) = "written")
              /\ pc' = exit("main")
              /\ UNCHANGED <<targetSite, customYAMLPathFoundAndValidated,
                             customOutputPathFoundAndValidated>>
         ELSE /\ targetSite' = IF targetSiteSpecified THEN targetSite ELSE Sentinel
              /\ customYAMLPathFoundAndValidated' = FALSE
              /\ customOutputPathFoundAndValidated' = FALSE
              /\ pc' = "main"
              /\ UNCHANGED fatalLogged
    /\ UNCHANGED <<source, loaded, preserveOldFiles, unzipFiles, targetSiteSpecified,
                   mainVars, sessVars, envVars, attempts, retrieved, purgeCalls,
                   unzipCalls, outcomes, failure, summary,
                   returnedLists>>

\* Lines 89-94: the selector becomes the list of target sites.
TargetList(selector, cfgs) ==
    IF selector = Sentinel THEN KeyList(cfgs) ELSE <<selector>>

\* Lines 80-97 of main.
MainSetup ==
    /\ pc = "main"
    /\ preserveOldFiles' = TRUE
    /\ targetFTPSite' = TargetList(targetSite, ftpConfigs)
    /\ allFilesDownloaded' = <<>>
    /\ siteIdx' = 1
    /\ pc' = "siteLoop"
    /\ UNCHANGED <<source, loaded, customYAMLPathFoundAndValidated,
                   customOutputPathFoundAndValidated, unzipFiles,
                   targetSiteSpecified, targetSite, ftpConfigs, downloadedFiles,
                   sessVars, envVars, histVars>>

\* Lines 100-102 and 201-210: ftpConfigs[site], then FTP(hostname) connects
\* and login authenticates.  Any of them may raise; nothing catches it, and
\* a connection that a failed login leaves open is never quit.
Connect ==
    /\ pc = "siteLoop"
    /\ siteIdx <= Len(targetFTPSite)
    /\ IF targetFTPSite[siteIdx] \notin Keys(ftpConfigs)
         THEN /\ pc' = "crashed"
              /\ failure' = "ftpConfigs[site]"
              /\ UNCHANGED <<attempts, openConns>>
         ELSE /\ attempts' = Append(attempts, targetFTPSite[siteIdx])
              /\ \E outcome \in {"FTP", "login", "connected"} :
                   /\ openConns' = IF outcome = "FTP" THEN openConns ELSE openConns + 1
                   /\ pc' = IF outcome = "connected" THEN "cwd" ELSE "crashed"
                   /\ failure' = IF outcome = "connected" THEN failure ELSE outcome
    /\ UNCHANGED <<source, loaded, argVars, mainVars, sessVars, fs, openHandles,
                   retrieved, purgeCalls, unzipCalls, outcomes, fatalLogged, summary,
                   returnedLists>>

\* Line 248: ftp.cwd(sourceDirectory); a missing directory raises.
ChangeDir ==
    /\ pc = "cwd"
    /\ \E ok \in BOOLEAN :
         /\ pc' = IF ok THEN "list" ELSE "crashed"
         /\ failure' = IF ok THEN failure ELSE "cwd"
    /\ UNCHANGED <<source, loaded, argVars, mainVars, sessVars, envVars, attempts,
                   retrieved, purgeCalls, unzipCalls, outcomes, fatalLogged, summary,
                   returnedLists>>

\* Lines 252-262: the LIST listing is logged, the NLST listing becomes
\* fileList; a failing listing raises.
ListDir ==
    /\ pc = "list"
    /\ \/ /\ \E l \in Listings : fileList' = l
          /\ fileIdx' = 1
          /\ filesDownloaded' = <<>>
          /\ outcomes' = <<>>
          /\ pc' = "fetch"
          /\ UNCHANGED failure
       \/ /\ pc' = "crashed"
          /\ failure' = "retrlines"
          /\ UNCHANGED <<fileList, fileIdx, filesDownloaded, outcomes>>
    /\ UNCHANGED <<source, loaded, argVars, mainVars, envVars, attempts, retrieved,
                   purgeCalls, unzipCalls, fatalLogged, summary,
                   returnedLists>>

\* Line 264.
WantedNotDot(filename) == filename # "."
Wanted(filename) == (filename # ".") /\ (filename # "..")

\* What the try block (lines 267-270) can meet for one name: open raises,
\* retrbinary raises, or the file arrives.
TryOutcomes == {"open", "RETR", "fetched"}

\* filesDownloaded after the try block: line 269 runs once retrbinary returned.
AfterTryAppendFirst(list, filename, outcome) ==
    IF outcome = "open" THEN list ELSE Append(list, filename)
AfterTry(list, filename, outcome) ==
    IF outcome = "fetched" THEN Append(list, filename) ELSE list

\* Lines 263-272, one pass of the loop body.  open creates or truncates the
\* local file before RETR is sent; when retrbinary raises, file.close() is
\* skipped.  The except clause swallows either failure.
FetchOne ==
    /\ pc = "fetch"
    /\ fileIdx <= Len(fileList)
    /\ LET filename == fileList[fileIdx]
       IN  IF ~Wanted(filename)
             THEN /\ outcomes' = Append(outcomes, "skipped")
                  /\ UNCHANGED <<fs, openHandles, retrieved, filesDownloaded>>
             ELSE \E outcome \in TryOutcomes :
                    /\ outcomes' = Append(outcomes, outcome)
                    /\ filesDownloaded' = AfterTry(filesDownloaded, filename, outcome)
                    /\ retrieved' = IF outcome = "open" THEN retrieved
                                    ELSE retrieved \cup {filename}
                    /\ openHandles' = IF outcome = "RETR" THEN openHandles + 1
                                      ELSE openHandles
                    /\ CASE outcome = "open" -> UNCHANGED fs
                         [] outcome = "RETR" ->
                              fs' = [fs EXCEPT ![filename] = Truncated]
                         [] outcome = "fetched" ->
                              \E c \in RemoteContents(filename) :
                                 fs' = [fs EXCEPT ![filename] = c]
    /\ fileIdx' = fileIdx + 1
    /\ UNCHANGED <<source, loaded, pc, argVars, mainVars, fileList, openConns,
                   attempts, purgeCalls, unzipCalls, fatalLogged, failure, summary,
                   returnedLists>>

\* Lines 274-278 and disconnectFtp (lines 292-295): after the last name the
\* connection is quit and filesDownloaded is returned to main; the locals
\* of downloadFiles end with the call.
Disconnect ==
    /\ pc = "fetch"
    /\ fileIdx > Len(fileList)
    /\ \/ /\ openConns' = openConns - 1
          /\ downloadedFiles' = filesDownloaded
          /\ returnedLists' = Append(returnedLists, filesDownloaded)
          /\ fileList' = <<>>
          /\ fileIdx' = 0
          /\ filesDownloaded' = <<>>
          /\ outcomes' = <<>>
          /\ pc' = "unzip"
          /\ UNCHANGED failure
       \/ \* ftp.quit() raises
          /\ pc' = "crashed"
          /\ failure' = "quit"
          /\ UNCHANGED <<openConns, downloadedFiles, sessVars, outcomes,
                         returnedLists>>
    /\ UNCHANGED <<source, loaded, argVars, ftpConfigs, targetFTPSite, siteIdx,
                   allFilesDownloaded, fs, openHandles, attempts,
                   retrieved, purgeCalls, unzipCalls, fatalLogged, summary>>

\* Line 106: the list handed to unzipZippedFiles is the one the session of
\* this site returned, not the accumulated one.
HandedToUnzipAccumulated(all, new) == all \o new
HandedToUnzip(all, new) == new

\* Lines 105-106.
Unzip ==
    /\ pc = "unzip"
    /\ IF unzipFiles
         THEN LET names == HandedToUnzip(allFilesDownloaded, downloadedFiles)
              IN  /\ \E o \in unzipZippedFiles(fs, names) :
                        /\ fs' = o.dir
                        /\ pc' = IF o.raised THEN "crashed" ELSE "accumulate"
                        /\ failure' = IF o.raised THEN "extractall" ELSE failure
                  /\ unzipCalls' = Append(unzipCalls, names)
         ELSE /\ pc' = "accumulate"
              /\ UNCHANGED <<fs, unzipCalls, failure>>
    /\ UNCHANGED <<source, loaded, argVars, mainVars, sessVars, openHandles,
                   openConns, attempts, retrieved, purgeCalls, outcomes,
                   fatalLogged, summary,
                   returnedLists>>

\* Line 108: allFilesDownloaded + downloadedFiles.
AccumulatedOverwrites(all, new) == new
Accumulated(all, new) == all \o new

\* Line 108, and the step of `for site in targetFTPSite`, which rebinds
\* downloadedFiles.
Accumulate ==
    /\ pc = "accumulate"
    /\ allFilesDownloaded' = Accumulated(allFilesDownloaded, downloadedFiles)
    /\ downloadedFiles' = <<>>
    /\ siteIdx' = siteIdx + 1
    /\ pc' = "siteLoop"
    /\ UNCHANGED <<source, loaded, argVars, ftpConfigs, targetFTPSite,
                   sessVars, envVars, histVars>>

\* Lines 100 and 110: safeExit is the statement after the loop over the
\* target sites.
AfterAnySite(idx, sites) == TRUE
AfterLastSite(idx, sites) == idx > Len(sites)

\* Line 110 and safeExit (lines 125-150): os.path.getsize of every reported
\* name, then the summary.
SafeExit ==
    /\ pc = "siteLoop"
    /\ AfterLastSite(siteIdx, targetFTPSite)
    /\ IF \E i \in 1..Len(allFilesDownloaded) : fs[allFilesDownloaded[i]] = NoFile
         THEN pc' = "crashed" /\ failure' = "getsize" /\ UNCHANGED summary
         ELSE pc' = "done" /\ summary' = Len(allFilesDownloaded) /\ UNCHANGED failure
    /\ UNCHANGED <<source, loaded, argVars, mainVars, sessVars, envVars, attempts,
                   retrieved, purgeCalls, unzipCalls, outcomes, fatalLogged,
                   returnedLists>>

Next ==
    \/ ParseArgsUsageExit
    \/ ParseOptions
    \/ ResolveConfigPath
    \/ ResolveDownloadPath
    \/ LoadCredentials
    \/ ValidateTarget
    \/ MainSetup
    \/ Connect
    \/ ChangeDir
    \/ ListDir
    \/ FetchOne
    \/ Disconnect
    \/ Unzip
    \/ Accumulate
    \/ SafeExit

Spec == Init /\ [][Next]_vars

(***************************************************************************)
(* Properties.                                                             *)
(***************************************************************************)
Range(sq) == {sq[i] : i \in 1..Len(sq)}

LacksKey(e) == ~AllKeysPresent(e.cfg)

\* An empty value: the key is there and nothing was given for it.
IsEmpty(v) == v = PyNone

NonEmptyEntry(e) == \A k \in KeySet : ~IsEmpty(e.cfg[k])

\* No connection was attempted or is open, nothing was fetched or expanded.
NoNetwork ==
    /\ attempts = <<>>
    /\ openConns = 0
    /\ retrieved = {}
    /\ unzipCalls = <<>>

\* The catalog is the validated one: loadCredentials has returned.
CatalogValidated ==
    /\ pc \notin {"parseArgs", "configPath", "downloadPath", "loadCredentials"}
    /\ failure \notin {"loadCredentials", "writeLog", "ftpConfigs.keys"}

\* The names of list whose pass of the loop body met "fetched", in order.
RECURSIVE FetchedNames(_, _)
FetchedNames(list, outs) ==
    IF list = <<>> \/ outs = <<>> THEN <<>>
    ELSE IF Head(outs) = "fetched"
      THEN <<Head(list)>> \o FetchedNames(Tail(list), Tail(outs))
      ELSE FetchedNames(Tail(list), Tail(outs))

\* C1: loadCredentials completes on every configuration source and returns
\* a catalog that holds no entry lacking one of the four keys.
C1_LoadDropsEntriesLackingKeys ==
    loaded.status # "not-run" =>
        /\ loaded.status = "returned"
        /\ \A i \in 1..Len(source) :
              LacksKey(source[i]) => source[i].name \notin Keys(loaded.cfgs)

\* C2: when every entry carries all four keys, the catalog is exactly the
\* source entries whose four values are all non-empty, values unchanged.
C2_CatalogIsTheNonEmptyEntries ==
    (loaded.status # "not-run" /\ \A i \in 1..Len(source) : ~LacksKey(source[i])) =>
        /\ loaded.status = "returned"
        /\ loaded.cfgs = SelectSeq(source, NonEmptyEntry)

\* C3: a -s name that is no key of the validated catalog ends the run at the
\* target check, with the fatal entry logged, and in that run no connection
\* is ever attempted, nothing is fetched and nothing is expanded.
C3_UnknownSelectorHaltsBeforeNetwork ==
    (targetSiteSpecified /\ CatalogValidated /\ targetSite \notin Keys(ftpConfigs)) =>
        /\ pc \in {"validateTarget", "exited"}
        /\ pc = "exited" => fatalLogged
        /\ NoNetwork

C3_Witness ==
    /\ pc = "exited"
    /\ targetSiteSpecified
    /\ CatalogValidated
    /\ ftpConfigs # <<>>
    /\ targetSite \notin Keys(ftpConfigs)
    /\ fatalLogged

\* C4: without -s, a run that entered main's loop has, when it ends,
\* attempted a connection to every site of the catalog, once each, in the
\* catalog's order.
C4_EverySiteAttemptedInOrder ==
    (pc \in {"done", "crashed"} /\ ~targetSiteSpecified /\ siteIdx >= 1) =>
        attempts = KeyList(ftpConfigs)

\* C5: with -s naming a key of the catalog, connections are attempted to
\* that site only, whatever the name is.
C5_NamedSiteOnly ==
    (targetSiteSpecified /\ siteIdx >= 1) =>
        /\ Len(attempts) <= 1
        /\ \A i \in 1..Len(attempts) : attempts[i] = targetSite

\* C6: '.' and '..' are never fetched and are in no list of downloaded
\* names: not the session's, not the one returned to main, not the report.
C6_DotEntriesNeverFetched ==
    \A n \in {".", ".."} :
        /\ n \notin retrieved
        /\ n \notin Range(filesDownloaded)
        /\ n \notin Range(downloadedFiles)
        /\ n \notin Range(allFilesDownloaded)

C6_Witness ==
    /\ pc = "fetch"
    /\ fileIdx > Len(fileList)
    /\ {".", ".."} \subseteq Range(fileList)
    /\ filesDownloaded # <<>>

\* C7: in the loop of downloadFiles a failed fetch never ends the loop: the
\* list built so far is exactly the names whose fetch succeeded, in listing
\* order; the loop is left only after the last name, into disconnectFtp;
\* and what is returned is the fetched names of the whole listing.
C7_FailedFetchIsSkipped ==
    /\ [](pc = "fetch" =>
            /\ Len(outcomes) = fileIdx - 1
            /\ filesDownloaded = FetchedNames(fileList, outcomes))
    /\ [][pc = "fetch" =>
            \/ pc' = "fetch"
            \/ fileIdx > Len(fileList) /\ pc' \in {"unzip", "crashed"}]_vars
    /\ [][(pc = "fetch" /\ pc' = "unzip") =>
            /\ Len(outcomes) = Len(fileList)
            /\ downloadedFiles' = FetchedNames(fileList, outcomes)]_vars

C7_Witness ==
    /\ pc = "fetch"
    /\ fileIdx > Len(fileList)
    /\ \E i, j \in 1..Len(outcomes) :
          i < j /\ outcomes[i] \in {"open", "RETR"} /\ outcomes[j] = "fetched"

\* C8: no run is ended by a failure to connect, to log in or to change to
\* the remote directory: the driver goes on to the next site.
C8_SiteFailureIsIsolated ==
    failure \notin {"FTP", "login", "cwd"}

\* C9: purge is never called and the pre-existing file of the output
\* directory is never deleted.
C9_PurgeNeverRuns ==
    /\ purgeCalls = 0
    /\ fs["SureDone_1.csv"] = Old

\* C10: unzipZippedFiles leaves every downloaded zip container as it was and
\* every member of it present in the output directory.
C10_ArchiveKeptAndMembersPresent ==
    [][(pc = "unzip" /\ unzipFiles) =>
          \A i \in 1..Len(downloadedFiles) :
             LET n == downloadedFiles[i]
             IN  is_zipfile(fs[n]) =>
                   /\ fs'[n] = fs[n]
                   /\ \A k \in 1..Len(fs[n].members) :
                         fs'[fs[n].members[k]] # NoFile]_vars

IsArchive(c) == is_zipfile(c) \/ is_tarfile(c)

\* C11: unzipZippedFiles passes over a downloaded file that is neither a zip
\* nor a tar container: a list without containers leaves the directory as
\* it was and does not raise; only members of listed containers are ever
\* written; and a container that follows such files is still extracted.
C11_NonArchivesAreSkipped ==
    [][(pc = "unzip" /\ unzipFiles) =>
          /\ (\A i \in 1..Len(downloadedFiles) : ~IsArchive(fs[downloadedFiles[i]]))
                => (fs' = fs /\ pc' = "accumulate")
          /\ \A n \in LocalNames :
                fs'[n] # fs[n] =>
                   \E i \in 1..Len(downloadedFiles) :
                      /\ IsArchive(fs[downloadedFiles[i]])
                      /\ n \in Range(fs[downloadedFiles[i]].members)
          /\ \A i \in 1..Len(downloadedFiles) :
                LET c == fs[downloadedFiles[i]]
                IN  (/\ IsArchive(c)
                     /\ downloadedFiles[i] \notin Range(c.members)
                     /\ \A j \in 1..(i - 1) : ~IsArchive(fs[downloadedFiles[j]]))
                    => \A m \in Range(c.members) : fs'[m] # NoFile]_vars

C11_Witness ==
    /\ pc = "accumulate"
    /\ unzipFiles
    /\ downloadedFiles = <<"a.txt", "b.zip">>
    /\ fs["a.txt"] = Plain
    /\ is_tarfile(fs["b.zip"])
    /\ fs["c.txt"] = Payload

\* C12: the summary is printed only at normal completion, after the last
\* selected site: a run that logged a fatal entry, or that an exception or
\* an exit ended, never prints it.
C12_SummaryOnlyAtNormalCompletion ==
    /\ (summary # -1) =>
          /\ pc = "done"
          /\ siteIdx > Len(targetFTPSite)
          /\ failure = "none"
          /\ ~fatalLogged
    /\ (fatalLogged \/ failure # "none" \/ pc \in {"exited", "crashed"})
          => summary = -1

C12_Witness ==
    /\ pc = "crashed"
    /\ failure = "cwd"
    /\ allFilesDownloaded # <<>>
    /\ summary = -1

\* C13: a fatal entry is the last thing the run does: once it is logged the
\* process has exited, no step follows, and no connection, transfer or
\* extraction has been or will be made.
C13_FatalEntryEndsTheRun ==
    /\ [](fatalLogged =>
            /\ pc = "exited"
            /\ attempts = <<>>
            /\ retrieved = {}
            /\ unzipCalls = <<>>
            /\ openConns = 0)
    /\ [][~fatalLogged]_vars

C13_Witness ==
    /\ fatalLogged
    /\ pc = "exited"
    /\ ~targetSiteSpecified
    /\ ~customYAMLPathFoundAndValidated

RECURSIVE Flatten(_)
Flatten(lists) ==
    IF lists = <<>> THEN <<>> ELSE Head(lists) \o Flatten(Tail(lists))

RECURSIVE TotalLen(_)
TotalLen(lists) ==
    IF lists = <<>> THEN 0 ELSE Len(Head(lists)) + TotalLen(Tail(lists))

\* C14: at normal completion the report is the concatenation, in site
\* order, of the lists the sessions returned, one per target site, and the
\* printed total is the sum of their lengths.
C14_ReportIsConcatenationOfSessions ==
    pc = "done" =>
       /\ Len(returnedLists) = Len(targetFTPSite)
       /\ allFilesDownloaded = Flatten(returnedLists)
       /\ summary = TotalLen(returnedLists)

C14_Witness ==
    /\ pc = "done"
    /\ Len(returnedLists) = 2
    /\ returnedLists[1] = <<"a.txt">>
    /\ returnedLists[2] = <<"b.zip", "a.txt">>
    /\ summary = 3

\* C15: at most one FTP connection is open at any moment, a site's
\* connection is quit before the next one is opened, and none is left open
\* when the run ends, whichever way the session went.
C15_ConnectionsAreClosed ==
    /\ openConns <= 1
    /\ (pc = "siteLoop") => openConns = 0
    /\ (pc \in {"done", "exited", "crashed"}) => openConns = 0

Front(sq) == SubSeq(sq, 1, Len(sq) - 1)

\* C16: without the unzip option nothing is ever extracted.  With it, the
\* lists handed to unzipZippedFiles are the lists the sessions returned,
\* each handed once and in order; a list is handed only when its session
\* has returned and no connection is open, and every returned list has been
\* handed before the next connection is attempted.
C16_ExpansionGatedAndOrdered ==
    /\ [](~unzipFiles =>
            /\ unzipCalls = <<>>
            /\ \A n \in LocalNames : fs[n] # Payload)
    /\ [](unzipFiles =>
            unzipCalls = IF pc = "unzip" THEN Front(returnedLists)
                         ELSE returnedLists)
    /\ [][unzipCalls' # unzipCalls =>
            /\ pc = "unzip"
            /\ openConns = 0
            /\ fileIdx = 0
            /\ unzipCalls' = Append(unzipCalls, returnedLists[Len(returnedLists)])]_vars
    /\ [][(unzipFiles /\ attempts' # attempts) => unzipCalls = returnedLists]_vars

C16_Witness ==
    /\ pc = "done"
    /\ unzipFiles
    /\ Len(unzipCalls) = 2
    /\ unzipCalls[1] = <<"b.zip">>
    /\ unzipCalls[2] = <<"a.txt", "b.zip">>
    /\ fs["c.txt"] = Payload

\* C17: the files a transfer session creates or overwrites are the names it
\* returns: a pass of the loop changes a file only when it appends that
\* file's name to the list, and leaves no file handle open.
C17_OnlyReturnedNamesAreWritten ==
    [][(pc = "fetch" /\ pc' = "fetch") =>
          /\ \A n \in LocalNames :
                fs'[n] # fs[n] => filesDownloaded' = Append(filesDownloaded, n)
          /\ openHandles' = openHandles]_vars

====
